---- MODULE Spec2Model ----
(***************************************************************************)
(* Model of node-webshot-server: the HTTP handlers (store, getStoredImage,  *)
(* generate) and the API behind them (store, getStoredImageUrl,             *)
(* checkFileExists, getS3Key, generate, screengrab).  Every asynchronous    *)
(* callback of the code is one action; the collaborators (S3, webshot, the  *)
(* local file system, the HTTP response) are state the actions read and     *)
(* write, and their failures are nondeterministic choices.                  *)
(***************************************************************************)
EXTENDS Integers, Sequences, FiniteSets, TLC

\* ------------------------------------------------------------------ bounds
MaxRequests == 2
MaxDelayInput == 10002
MaxPathLen == 3

Ids == 1..MaxRequests

\* ------------------------------------------------------- program constants
DefaultWidth == 1024
DefaultHeight == 768
DefaultDelay == 0
MaxDelay == 10000

Undefined == "undefined"

\* ------------------------------------------------------------ input values
\* A numeric request parameter: absent, or a number.
NoNum == [def |-> FALSE, n |-> 0]
Num(k) == [def |-> TRUE, n |-> k]

\* A name is a sequence of path segments ("a", "./a", ""); <<>> is the empty
\* name, for which `!name` holds.
Names == { <<>>, <<"a">>, <<".", "a">>, <<"b">> }

\* A URL as Url.parse sees it: present or not, protocol, hostname, pathname;
\* the strings are sequences of characters, <<>> standing for null/empty.
NoUrl == [present |-> FALSE, protocol |-> <<>>, hostname |-> <<>>, pathname |-> <<>>]
UrlNoProtocol == [present |-> TRUE, protocol |-> <<>>, hostname |-> <<>>,
                  pathname |-> <<"n", "o">>]
UrlNoHost == [present |-> TRUE, protocol |-> <<"h", ":">>, hostname |-> <<>>,
              pathname |-> <<"/", "x">>]
UrlSite == [present |-> TRUE, protocol |-> <<"h", ":">>, hostname |-> <<"o", ".", "g">>,
            pathname |-> <<"/", "a", "-", "b", "/">>]
Urls == { NoUrl, UrlNoProtocol, UrlNoHost, UrlSite }

\* URLs of one host whose path is "/" followed by up to MaxPathLen - 1 characters
PathChars == {"/", "a", "-", "_"}
NamePaths == { <<"/">> \o t : t \in UNION { [1..n -> PathChars] : n \in 0..(MaxPathLen - 1) } }
NameUrls == { [present |-> TRUE, protocol |-> <<"h", ":">>, hostname |-> <<"o", ".", "g">>,
               pathname |-> path] : path \in NamePaths }

DelayInputs == { NoNum, Num(0 - 1), Num(0), Num(1), Num(MaxDelay - 1), Num(MaxDelay),
                 Num(MaxDelay + 1), Num(MaxDelayInput) }

\* The query parameters width, height, delay, userAgent, full of a request.
NoParams == [width |-> NoNum, height |-> NoNum, delay |-> NoNum,
             userAgent |-> Undefined, full |-> Undefined]
BigParams == [width |-> Num(800), height |-> Num(600), delay |-> Num(MaxDelayInput),
              userAgent |-> "UA", full |-> "true"]
\* parameters sent in the request workflow
StoreParams == { BigParams }
GenerateParams == { NoParams, BigParams }
\* parameters sent when option handling is examined
AllParams == [width : {NoNum, Num(0), Num(800)}, height : {NoNum, Num(600)},
              delay : DelayInputs, userAgent : {Undefined, "UA"},
              full : {Undefined, "true", "1"}]

NoRequest == [kind |-> "none", name |-> <<>>, url |-> NoUrl, params |-> NoParams]

\* ---------------------------------------------------------------- storage
BaseDir == <<"dir">>

RECURSIVE NormalizeSegs(_, _)
NormalizeSegs(segs, acc) ==
    IF segs = <<>> THEN acc
    ELSE LET s == Head(segs)
             rest == Tail(segs)
         IN  IF s = "." THEN NormalizeSegs(rest, acc)
             ELSE IF s = ".." /\ acc # <<>> /\ acc[Len(acc)] # ".."
                  THEN NormalizeSegs(rest, SubSeq(acc, 1, Len(acc) - 1))
                  ELSE NormalizeSegs(rest, Append(acc, s))

\* path.join(process.env.AWS_S3_DIRECTORY, name)
getS3Key(name) == NormalizeSegs(BaseDir \o name, <<>>)

\* s3.getSignedUrl('getObject', {Bucket, Key})
getSignedUrl(key) == <<"signed">> \o key

\* ------------------------------------------------------------------- state
VARIABLES
    req,          \* req[i]: the request i as received (NoRequest: not arrived)
    pc,           \* pc[i]: the asynchronous call request i is waiting on
    resp,         \* resp[i]: the HTTP responses sent for request i, in order
    s3,           \* the bucket: key -> content (the id of the rendering request, 0: older)
    disk,         \* temp files on disk; the file of request i is i
    webshotCalls, \* webshotCalls[i]: the webshot invocations of request i and their outcome
    s3Calls,      \* s3Calls[i]: the S3 operations request i invoked and their outcome
    unlinkCalls,  \* temp file -> outcome of the fs.unlink called for it
    uploads,      \* the uploads the bucket applied, in order
    atArrival     \* history: the requests answered and the keys stored when i arrived

vars == <<req, pc, resp, s3, disk, webshotCalls, s3Calls, unlinkCalls, uploads, atArrival>>

Response(code, body) == [code |-> code, body |-> body, url |-> <<>>, filename |-> <<>>]

Send(i, r) == resp' = [resp EXCEPT ![i] = Append(@, r)]

Call(log, entry) == Append(log, entry)

\* the last call of the log has called back
Returned(log, outcome) == [log EXCEPT ![Len(log)].outcome = outcome]

Arrive(i, r) ==
    /\ pc[i] = "idle"
    /\ \A j \in Ids : j < i => pc[j] # "idle"
    /\ req' = [req EXCEPT ![i] = r]
    /\ atArrival' = [atArrival EXCEPT
                        ![i] = [responded |-> { j \in Ids : resp[j] # <<>> },
                                keys |-> DOMAIN s3]]

Init ==
    /\ req = [i \in Ids |-> NoRequest]
    /\ pc = [i \in Ids |-> "idle"]
    /\ resp = [i \in Ids |-> <<>>]
    /\ s3 = [k \in { getS3Key(<<"b">>) } |-> 0]
    /\ disk = {}
    /\ webshotCalls = [i \in Ids |-> <<>>]
    /\ s3Calls = [i \in Ids |-> <<>>]
    /\ unlinkCalls = <<>>
    /\ uploads = <<>>
    /\ atArrival = [i \in Ids |-> [responded |-> {}, keys |-> {}]]

\* ------------------------------------------------------------ pure helpers
NoError == [code |-> 0, msg |-> Undefined, message |-> Undefined]

\* The URL checks of the store and generate handlers: the message of the 400
\* response, or "ok".
ValidateUrl_NoHostCheck(url) ==
    IF ~url.present THEN "Missing url"
    ELSE IF url.protocol = <<>> THEN "Invalid url, missing protocol"
    ELSE "ok"

ValidateUrl(url) ==
    IF ~url.present THEN "Missing url"
    ELSE IF url.protocol = <<>> THEN "Invalid url, missing protocol"
    ELSE IF url.hostname = <<>> THEN "Invalid url, missing hostname"
    ELSE "ok"

\* The options object the handlers build from the request parameters.
HandlerOptions(params) ==
    [width |-> params.width, height |-> params.height, delay |-> params.delay,
     userAgent |-> params.userAgent, full |-> (params.full = "true")]

\* `v || d` on a numeric option
OrDefault(v, d) == IF v.def /\ v.n # 0 THEN v.n ELSE d

NormalizeDelay_NoCap(delay) == OrDefault(delay, DefaultDelay)

\* options.delay = options.delay || 0; if (options.delay > 10000) options.delay = 10000
NormalizeDelay(delay) ==
    LET d == OrDefault(delay, DefaultDelay)
    IN  IF d > MaxDelay THEN MaxDelay ELSE d

NormalizeOptions_HeightDefaultsToWidth(options) ==
    [width |-> OrDefault(options.width, DefaultWidth),
     height |-> OrDefault(options.height, DefaultWidth),
     delay |-> NormalizeDelay(options.delay),
     userAgent |-> IF options.userAgent \in {Undefined, ""} THEN "" ELSE options.userAgent,
     full |-> options.full]

\* generate(): defaults and the cap on the delay
NormalizeOptions(options) ==
    [width |-> OrDefault(options.width, DefaultWidth),
     height |-> OrDefault(options.height, DefaultHeight),
     delay |-> NormalizeDelay(options.delay),
     userAgent |-> IF options.userAgent \in {Undefined, ""} THEN "" ELSE options.userAgent,
     full |-> options.full]

\* screengrab(): the options handed to webshot
WebshotOptions(url, options) ==
    [url |-> url,
     renderDelay |-> options.delay,
     width |-> options.width,
     height |-> options.height,
     shotHeight |-> IF options.full = TRUE THEN "all" ELSE "window",
     userAgent |-> options.userAgent,
     outcome |-> "pending"]

checkFileExists_NeverExists(outcome) ==
    IF outcome \notin {"ok", "NoSuchKey"}
    THEN [err |-> [code |-> 500, msg |-> Undefined, message |-> "s3:" \o outcome],
          exists |-> FALSE]
    ELSE [err |-> NoError, exists |-> FALSE]

checkFileExists_AnyErrorNotFound(outcome) ==
    IF outcome # "ok"
    THEN [err |-> NoError, exists |-> FALSE]
    ELSE [err |-> NoError, exists |-> TRUE]

\* checkFileExists(): the callback arguments for an outcome of s3.getObject
checkFileExists(outcome) ==
    IF outcome \notin {"ok", "NoSuchKey"}
    THEN [err |-> [code |-> 500, msg |-> Undefined, message |-> "s3:" \o outcome],
          exists |-> FALSE]
    ELSE IF outcome = "NoSuchKey"
    THEN [err |-> NoError, exists |-> FALSE]
    ELSE [err |-> NoError, exists |-> TRUE]

\* the outcomes s3.getObject can have for a key
GetObjectOutcomes(key) ==
    {"InternalError"} \cup (IF key \in DOMAIN s3 THEN {"ok"} ELSE {"NoSuchKey"})

\* store(): what the callback of checkFileExists decides; NoError: go on
StoreCheck(outcome) ==
    LET r == checkFileExists(outcome)
    IN  IF r.err # NoError THEN r.err
        ELSE IF r.exists
        THEN [code |-> 400, msg |-> "A URL by that name already exists", message |-> Undefined]
        ELSE NoError

getStoredImageUrl_NoExistsCheck(name, outcome) ==
    LET r == checkFileExists(outcome)
    IN  IF r.err # NoError THEN [err |-> r.err, url |-> <<>>]
        ELSE [err |-> NoError, url |-> getSignedUrl(getS3Key(name))]

\* getStoredImageUrl(): the callback arguments for an outcome of s3.getObject
getStoredImageUrl(name, outcome) ==
    LET r == checkFileExists(outcome)
    IN  IF r.err # NoError THEN [err |-> r.err, url |-> <<>>]
        ELSE IF ~r.exists
        THEN [err |-> [code |-> 404, msg |-> "A URL by that name does not exist",
                       message |-> Undefined],
              url |-> <<>>]
        ELSE [err |-> NoError, url |-> getSignedUrl(getS3Key(name))]

WordChars == {"a", "b", "g", "h", "o", "x", "n", "_"}

\* str.replace(/\W/g, '_')
ReplaceNonWord(str) == [k \in 1..Len(str) |-> IF str[k] \in WordChars THEN str[k] ELSE "_"]

\* str.replace(/_$/, '')
StripTrailingUnderscore(str) ==
    IF str # <<>> /\ str[Len(str)] = "_" THEN SubSeq(str, 1, Len(str) - 1) ELSE str

\* the download name built by the generate handler
ImageName(url) ==
    ReplaceNonWord(url.hostname)
        \o StripTrailingUnderscore(ReplaceNonWord(url.pathname))
        \o <<".", "p", "n", "g">>

PutObject_BaseDir(bucket, key, content) ==
    [k \in DOMAIN bucket \cup {BaseDir} |-> IF k = BaseDir THEN content ELSE bucket[k]]

PutObject_IfAbsent(bucket, key, content) ==
    [k \in DOMAIN bucket \cup {key} |-> IF k \in DOMAIN bucket THEN bucket[k] ELSE content]

\* the bucket after s3.upload of the file `content` under `key`
PutObject(bucket, key, content) ==
    [k \in DOMAIN bucket \cup {key} |-> IF k = key THEN content ELSE bucket[k]]

UnlinkAfterUpload_OnSuccess(uploadError) == ~uploadError

\* store(): fs.unlink is called in the callback of s3.upload, whatever uploadError is
UnlinkAfterUpload(uploadError) == TRUE

UnlinkAfterDownload_OnSuccess(downloadError) == ~downloadError

\* exports.generate: fs.unlink is called in the callback of res.download, which
\* ignores its error argument
UnlinkAfterDownload(downloadError) == TRUE

StoreResult_IgnoreUploadError(uploadError) == NoError

\* the error store() hands to its callback once upload and unlink are over
StoreResult(uploadError) ==
    IF uploadError
    THEN [code |-> 500, msg |-> Undefined,
          message |-> "Unable to upload the rendered image of the website to S3"]
    ELSE NoError

\* the callback exports.store gives to WebshotAPI.store
StoreResponse(err, name) ==
    IF err # NoError
    THEN Response(err.code, err.msg)
    ELSE [code |-> 200, body |-> "", url |-> <<"f">> \o name, filename |-> <<>>]

\* the callback exports.getStoredImage gives to WebshotAPI.getStoredImageUrl
FetchResponse(r) ==
    IF r.err # NoError
    THEN Response(r.err.code, r.err.message)
    ELSE [code |-> 302, body |-> "", url |-> r.url, filename |-> <<>>]

\* generate() -> screengrab(): webshot is invoked for request i
InvokeWebshot(i, url, options) ==
    webshotCalls' = [webshotCalls EXCEPT
                        ![i] = Call(@, WebshotOptions(url, NormalizeOptions(options)))]

S3Call(op) == [op |-> op, outcome |-> "pending"]

\* ----------------------------------------------------------------- actions
StoreRequest_ExistenceFirst(i, name, url, params) ==
    /\ Arrive(i, [kind |-> "store", name |-> name, url |-> url, params |-> params])
    /\ IF name = <<>>
       THEN /\ Send(i, Response(400, "Missing name"))
            /\ pc' = [pc EXCEPT ![i] = "done"]
            /\ UNCHANGED s3Calls
       ELSE /\ s3Calls' = [s3Calls EXCEPT ![i] = Call(@, S3Call("getObject"))]
            /\ pc' = [pc EXCEPT ![i] = "getObject"]
            /\ UNCHANGED resp
    /\ UNCHANGED <<s3, disk, webshotCalls, unlinkCalls, uploads>>

\* exports.store up to the call of s3.getObject in checkFileExists
StoreRequest(i, name, url, params) ==
    /\ Arrive(i, [kind |-> "store", name |-> name, url |-> url, params |-> params])
    /\ IF name = <<>>
       THEN /\ Send(i, Response(400, "Missing name"))
            /\ pc' = [pc EXCEPT ![i] = "done"]
            /\ UNCHANGED s3Calls
       ELSE IF ValidateUrl(url) # "ok"
       THEN /\ Send(i, Response(400, ValidateUrl(url)))
            /\ pc' = [pc EXCEPT ![i] = "done"]
            /\ UNCHANGED s3Calls
       ELSE /\ s3Calls' = [s3Calls EXCEPT ![i] = Call(@, S3Call("getObject"))]
            /\ pc' = [pc EXCEPT ![i] = "getObject"]
            /\ UNCHANGED resp
    /\ UNCHANGED <<s3, disk, webshotCalls, unlinkCalls, uploads>>

StoreCheckReturn_NoReturn(i) ==
    /\ pc[i] = "getObject"
    /\ req[i].kind = "store"
    /\ \E outcome \in GetObjectOutcomes(getS3Key(req[i].name)) :
          /\ s3Calls' = [s3Calls EXCEPT ![i] = Returned(@, outcome)]
          /\ IF StoreCheck(outcome) # NoError
             THEN Send(i, StoreResponse(StoreCheck(outcome), req[i].name))
             ELSE UNCHANGED resp
          /\ InvokeWebshot(i, req[i].url, HandlerOptions(req[i].params))
          /\ pc' = [pc EXCEPT ![i] = "webshot"]
    /\ UNCHANGED <<req, s3, disk, unlinkCalls, uploads, atArrival>>

\* the callback of checkFileExists in store()
StoreCheckReturn(i) ==
    /\ pc[i] = "getObject"
    /\ req[i].kind = "store"
    /\ \E outcome \in GetObjectOutcomes(getS3Key(req[i].name)) :
          /\ s3Calls' = [s3Calls EXCEPT ![i] = Returned(@, outcome)]
          /\ IF StoreCheck(outcome) # NoError
             THEN /\ Send(i, StoreResponse(StoreCheck(outcome), req[i].name))
                  /\ pc' = [pc EXCEPT ![i] = "done"]
                  /\ UNCHANGED webshotCalls
             ELSE /\ InvokeWebshot(i, req[i].url, HandlerOptions(req[i].params))
                  /\ pc' = [pc EXCEPT ![i] = "webshot"]
                  /\ UNCHANGED resp
    /\ UNCHANGED <<req, s3, disk, unlinkCalls, uploads, atArrival>>

StoreWebshotReturn_RetryOnce(i) ==
    /\ pc[i] = "webshot"
    /\ req[i].kind = "store"
    /\ \E failed \in BOOLEAN :
          IF failed /\ Len(webshotCalls[i]) = 1
          THEN /\ webshotCalls' = [webshotCalls EXCEPT
                                      ![i] = Call(Returned(@, "error"),
                                                  [@[1] EXCEPT !.outcome = "pending"])]
               /\ UNCHANGED <<disk, s3Calls, resp, pc>>
          ELSE IF failed
          THEN /\ webshotCalls' = [webshotCalls EXCEPT ![i] = Returned(@, "error")]
               /\ Send(i, StoreResponse([code |-> 500, msg |-> "Unable to take a screenshot",
                                         message |-> Undefined], req[i].name))
               /\ pc' = [pc EXCEPT ![i] = "done"]
               /\ UNCHANGED <<disk, s3Calls>>
          ELSE /\ webshotCalls' = [webshotCalls EXCEPT ![i] = Returned(@, "ok")]
               /\ disk' = disk \cup {i}
               /\ s3Calls' = [s3Calls EXCEPT ![i] = Call(@, S3Call("upload"))]
               /\ pc' = [pc EXCEPT ![i] = "upload"]
               /\ UNCHANGED resp
    /\ UNCHANGED <<req, s3, unlinkCalls, uploads, atArrival>>

\* the callback of webshot, then of generate, in store()
StoreWebshotReturn(i) ==
    /\ pc[i] = "webshot"
    /\ req[i].kind = "store"
    /\ \E failed \in BOOLEAN :
          IF failed
          THEN /\ webshotCalls' = [webshotCalls EXCEPT ![i] = Returned(@, "error")]
               /\ Send(i, StoreResponse([code |-> 500, msg |-> "Unable to take a screenshot",
                                         message |-> Undefined], req[i].name))
               /\ pc' = [pc EXCEPT ![i] = "done"]
               /\ UNCHANGED <<disk, s3Calls>>
          ELSE /\ webshotCalls' = [webshotCalls EXCEPT ![i] = Returned(@, "ok")]
               /\ disk' = disk \cup {i}
               /\ s3Calls' = [s3Calls EXCEPT ![i] = Call(@, S3Call("upload"))]
               /\ pc' = [pc EXCEPT ![i] = "upload"]
               /\ UNCHANGED resp
    /\ UNCHANGED <<req, s3, unlinkCalls, uploads, atArrival>>

StoreUploadReturn_WriteOnError(i) ==
    /\ pc[i] = "upload"
    /\ \E uploadError \in BOOLEAN :
          /\ s3' = PutObject(s3, getS3Key(req[i].name), i)
          /\ uploads' = Append(uploads, [key |-> getS3Key(req[i].name), content |-> i])
          /\ s3Calls' = [s3Calls EXCEPT
                            ![i] = Returned(@, IF uploadError THEN "error" ELSE "ok")]
          /\ unlinkCalls' = (i :> "pending") @@ unlinkCalls
          /\ pc' = [pc EXCEPT ![i] = "unlink"]
          /\ UNCHANGED resp
    /\ UNCHANGED <<req, disk, webshotCalls, atArrival>>

\* the callback of s3.upload: fs.unlink is called
StoreUploadReturn(i) ==
    /\ pc[i] = "upload"
    /\ \E uploadError \in BOOLEAN :
          /\ IF uploadError
             THEN UNCHANGED <<s3, uploads>>
             ELSE /\ s3' = PutObject(s3, getS3Key(req[i].name), i)
                  /\ uploads' = Append(uploads, [key |-> getS3Key(req[i].name), content |-> i])
          /\ s3Calls' = [s3Calls EXCEPT
                            ![i] = Returned(@, IF uploadError THEN "error" ELSE "ok")]
          /\ IF UnlinkAfterUpload(uploadError)
             THEN /\ unlinkCalls' = (i :> "pending") @@ unlinkCalls
                  /\ pc' = [pc EXCEPT ![i] = "unlink"]
                  /\ UNCHANGED resp
             ELSE /\ Send(i, StoreResponse(StoreResult(uploadError), req[i].name))
                  /\ pc' = [pc EXCEPT ![i] = "done"]
                  /\ UNCHANGED unlinkCalls
    /\ UNCHANGED <<req, disk, webshotCalls, atArrival>>

\* the upload of store() failed
UploadFailed(i) == s3Calls[i][Len(s3Calls[i])].outcome = "error"

StoreUnlinkReturn_ReportUnlinkError(i) ==
    /\ pc[i] = "unlink"
    /\ req[i].kind = "store"
    /\ \E unlinkError \in BOOLEAN :
          /\ disk' = IF unlinkError THEN disk ELSE disk \ {i}
          /\ unlinkCalls' = [unlinkCalls EXCEPT ![i] = IF unlinkError THEN "error" ELSE "ok"]
          /\ Send(i, StoreResponse(StoreResult(UploadFailed(i) \/ unlinkError), req[i].name))
    /\ pc' = [pc EXCEPT ![i] = "done"]
    /\ UNCHANGED <<req, s3, webshotCalls, s3Calls, uploads, atArrival>>

\* the callback of fs.unlink in store(): the result is reported
StoreUnlinkReturn(i) ==
    /\ pc[i] = "unlink"
    /\ req[i].kind = "store"
    /\ \E unlinkError \in BOOLEAN :
          /\ disk' = IF unlinkError THEN disk ELSE disk \ {i}
          /\ unlinkCalls' = [unlinkCalls EXCEPT ![i] = IF unlinkError THEN "error" ELSE "ok"]
    /\ Send(i, StoreResponse(StoreResult(UploadFailed(i)), req[i].name))
    /\ pc' = [pc EXCEPT ![i] = "done"]
    /\ UNCHANGED <<req, s3, webshotCalls, s3Calls, uploads, atArrival>>

\* exports.getStoredImage up to the call of s3.getObject in checkFileExists
FetchRequest(i, name) ==
    /\ Arrive(i, [kind |-> "fetch", name |-> name, url |-> NoUrl, params |-> NoParams])
    /\ s3Calls' = [s3Calls EXCEPT ![i] = Call(@, S3Call("getObject"))]
    /\ pc' = [pc EXCEPT ![i] = "getObject"]
    /\ UNCHANGED <<resp, s3, disk, webshotCalls, unlinkCalls, uploads>>

FetchCheckReturn_SilentNotFound(i) ==
    /\ pc[i] = "getObject"
    /\ req[i].kind = "fetch"
    /\ \E outcome \in GetObjectOutcomes(getS3Key(req[i].name)) :
          LET r == getStoredImageUrl(req[i].name, outcome)
          IN  /\ s3Calls' = [s3Calls EXCEPT
                                ![i] = IF r.err = NoError
                                       THEN Call(Returned(@, outcome),
                                                 [op |-> "getSignedUrl", outcome |-> "ok"])
                                       ELSE Returned(@, outcome)]
              /\ IF r.err.code = 404 THEN UNCHANGED resp ELSE Send(i, FetchResponse(r))
    /\ pc' = [pc EXCEPT ![i] = "done"]
    /\ UNCHANGED <<req, s3, disk, webshotCalls, unlinkCalls, uploads, atArrival>>

\* the callback of checkFileExists in getStoredImageUrl()
FetchCheckReturn(i) ==
    /\ pc[i] = "getObject"
    /\ req[i].kind = "fetch"
    /\ \E outcome \in GetObjectOutcomes(getS3Key(req[i].name)) :
          LET r == getStoredImageUrl(req[i].name, outcome)
          IN  /\ s3Calls' = [s3Calls EXCEPT
                                ![i] = IF r.err = NoError
                                       THEN Call(Returned(@, outcome),
                                                 [op |-> "getSignedUrl", outcome |-> "ok"])
                                       ELSE Returned(@, outcome)]
              /\ Send(i, FetchResponse(r))
    /\ pc' = [pc EXCEPT ![i] = "done"]
    /\ UNCHANGED <<req, s3, disk, webshotCalls, unlinkCalls, uploads, atArrival>>

\* exports.generate up to the call of webshot in screengrab
GenerateRequest(i, url, params) ==
    /\ Arrive(i, [kind |-> "generate", name |-> <<>>, url |-> url, params |-> params])
    /\ IF ValidateUrl(url) # "ok"
       THEN /\ Send(i, Response(400, ValidateUrl(url)))
            /\ pc' = [pc EXCEPT ![i] = "done"]
            /\ UNCHANGED webshotCalls
       ELSE /\ InvokeWebshot(i, url, HandlerOptions(params))
            /\ pc' = [pc EXCEPT ![i] = "webshot"]
            /\ UNCHANGED resp
    /\ UNCHANGED <<s3, disk, s3Calls, unlinkCalls, uploads>>

\* the callback of webshot, then of generate, in exports.generate
GenerateWebshotReturn(i) ==
    /\ pc[i] = "webshot"
    /\ req[i].kind = "generate"
    /\ \E failed \in BOOLEAN :
          IF failed
          THEN /\ webshotCalls' = [webshotCalls EXCEPT ![i] = Returned(@, "error")]
               /\ Send(i, Response(500, "Unable to take a screenshot"))
               /\ pc' = [pc EXCEPT ![i] = "done"]
               /\ UNCHANGED disk
          ELSE /\ webshotCalls' = [webshotCalls EXCEPT ![i] = Returned(@, "ok")]
               /\ disk' = disk \cup {i}
               /\ Send(i, [code |-> 200, body |-> "", url |-> <<>>,
                           filename |-> ImageName(req[i].url)])
               /\ pc' = [pc EXCEPT ![i] = "download"]
    /\ UNCHANGED <<req, s3, s3Calls, unlinkCalls, uploads, atArrival>>

\* the callback of res.download, whether the transfer worked or not
DownloadReturn(i) ==
    /\ pc[i] = "download"
    /\ \E downloadError \in BOOLEAN :
          IF UnlinkAfterDownload(downloadError)
          THEN /\ unlinkCalls' = (i :> "pending") @@ unlinkCalls
               /\ pc' = [pc EXCEPT ![i] = "unlink"]
          ELSE /\ pc' = [pc EXCEPT ![i] = "done"]
               /\ UNCHANGED unlinkCalls
    /\ UNCHANGED <<req, resp, s3, disk, webshotCalls, s3Calls, uploads, atArrival>>

\* fs.unlink(path) of exports.generate finishes; nobody is called back
GenerateUnlinkReturn(i) ==
    /\ pc[i] = "unlink"
    /\ req[i].kind = "generate"
    /\ \E unlinkError \in BOOLEAN :
          /\ disk' = IF unlinkError THEN disk ELSE disk \ {i}
          /\ unlinkCalls' = [unlinkCalls EXCEPT ![i] = IF unlinkError THEN "error" ELSE "ok"]
    /\ pc' = [pc EXCEPT ![i] = "done"]
    /\ UNCHANGED <<req, resp, s3, webshotCalls, s3Calls, uploads, atArrival>>

Next ==
    \/ \E i \in Ids, name \in Names, url \in Urls, params \in StoreParams :
          StoreRequest(i, name, url, params)
    \/ \E i \in Ids : StoreCheckReturn(i)
    \/ \E i \in Ids : StoreWebshotReturn(i)
    \/ \E i \in Ids : StoreUploadReturn(i)
    \/ \E i \in Ids : StoreUnlinkReturn(i)
    \/ \E i \in Ids, name \in Names : FetchRequest(i, name)
    \/ \E i \in Ids : FetchCheckReturn(i)
    \/ \E i \in Ids, url \in Urls, params \in GenerateParams : GenerateRequest(i, url, params)
    \/ \E i \in Ids : GenerateWebshotReturn(i)
    \/ \E i \in Ids : DownloadReturn(i)
    \/ \E i \in Ids : GenerateUnlinkReturn(i)

Spec == Init /\ [][Next]_vars

\* Every call of a collaborator eventually calls back.
Callbacks(i) ==
    \/ StoreCheckReturn(i)
    \/ StoreWebshotReturn(i)
    \/ StoreUploadReturn(i)
    \/ StoreUnlinkReturn(i)
    \/ FetchCheckReturn(i)
    \/ GenerateWebshotReturn(i)
    \/ DownloadReturn(i)
    \/ GenerateUnlinkReturn(i)

\* The requests of the workflow on an unused and a used name, a missing and a
\* valid URL.
LiveNames == { <<"a">>, <<"b">> }
LiveUrls == { NoUrl, UrlSite }

NextLive ==
    \/ \E i \in Ids, name \in LiveNames, url \in LiveUrls : StoreRequest(i, name, url, BigParams)
    \/ \E i \in Ids, name \in LiveNames : FetchRequest(i, name)
    \/ \E i \in Ids, url \in LiveUrls : GenerateRequest(i, url, NoParams)
    \/ \E i \in Ids : Callbacks(i)

FairSpec == Init /\ [][NextLive]_vars /\ \A i \in Ids : WF_vars(Callbacks(i))

\* One request, with every combination of the option parameters.
NextOptions ==
    \/ \E params \in AllParams : StoreRequest(1, <<"a">>, UrlSite, params)
    \/ StoreCheckReturn(1)
    \/ StoreWebshotReturn(1)
    \/ StoreUploadReturn(1)
    \/ StoreUnlinkReturn(1)
    \/ \E params \in AllParams : GenerateRequest(1, UrlSite, params)
    \/ GenerateWebshotReturn(1)
    \/ DownloadReturn(1)
    \/ GenerateUnlinkReturn(1)

SpecOptions == Init /\ [][NextOptions]_vars

\* One Generate request, with every URL of NameUrls.
NextImageName ==
    \/ \E url \in NameUrls : GenerateRequest(1, url, NoParams)
    \/ GenerateWebshotReturn(1)
    \/ DownloadReturn(1)
    \/ GenerateUnlinkReturn(1)

SpecImageName == Init /\ [][NextImageName]_vars

\* ------------------------------------------------------------- vocabulary
IsStore(i) == req[i].kind = "store"
IsFetch(i) == req[i].kind = "fetch"
IsGenerate(i) == req[i].kind = "generate"
Key(i) == getS3Key(req[i].name)
Responded(i) == resp[i] # <<>>
Result(i) == resp[i][1]
Ops(i) == { s3Calls[i][k].op : k \in DOMAIN s3Calls[i] }
BadUrl(u) == ~u.present \/ u.protocol = <<>> \/ u.hostname = <<>>
StoreSucceeded(i) == IsStore(i) /\ Responded(i) /\ Result(i).code = 200
UploadsOf(key) == { n \in DOMAIN uploads : uploads[n].key = key }
Uploaders(key) == { uploads[n].content : n \in UploadsOf(key) }
LastUploader(key) == uploads[CHOOSE n \in UploadsOf(key) : \A m \in UploadsOf(key) : m <= n].content
Rendered(i) == webshotCalls[i] # <<>> /\ webshotCalls[i][1].outcome = "ok"
SawNotFound(i) == s3Calls[i] # <<>> /\ s3Calls[i][1].outcome = "NoSuchKey"
ConflictResponse == Response(400, "A URL by that name already exists")

\* the fetch f arrived after the store s had reported success, for the same name
FetchAfterStore(s, f) ==
    /\ StoreSucceeded(s)
    /\ Key(s) \notin atArrival[s].keys
    /\ IsFetch(f)
    /\ s \in atArrival[f].responded
    /\ req[f].name = req[s].name
    /\ Responded(f)

\* unless the storage failed, the fetch is a redirect to the signed URL of base/name
FetchRedirects(s, f) ==
    Result(f).code # 500 =>
        /\ Result(f).code = 302
        /\ Result(f).url = getSignedUrl(Key(s))
        /\ "getSignedUrl" \in Ops(f)

\* ------------------------------------------------------------------ claims
\* C1 (as stated): after a successful Store(name, url, options) for an unused
\* name, a FetchRedirectTarget(name) succeeds with the signed URL of base/name,
\* and the object under that key is the bytes rendered by that Store call.
C1_StoredBytesAreOwn ==
    \A s \in Ids :
        StoreSucceeded(s) /\ Key(s) \notin atArrival[s].keys =>
            /\ Key(s) \in DOMAIN s3
            /\ s3[Key(s)] = s
            /\ \A f \in Ids : FetchAfterStore(s, f) => FetchRedirects(s, f)

\* C1 (amended): after a successful Store for an unused name, a
\* FetchRedirectTarget(name) succeeds with the signed URL of base/name, and the
\* object under that key is the bytes rendered by a Store call that uploaded
\* under that key: by that Store call itself when no other Store uploaded there.
C1_StoreThenFetch ==
    \A s \in Ids :
        StoreSucceeded(s) /\ Key(s) \notin atArrival[s].keys =>
            /\ Key(s) \in DOMAIN s3
            /\ s \in Uploaders(Key(s))
            /\ s3[Key(s)] \in Uploaders(Key(s))
            /\ (Uploaders(Key(s)) = {s} => s3[Key(s)] = s)
            /\ \A f \in Ids : FetchAfterStore(s, f) => FetchRedirects(s, f)

C1_Witness ==
    \E s \in Ids, f \in Ids :
        /\ FetchAfterStore(s, f)
        /\ Result(f).code = 302
        /\ Key(s) \in DOMAIN s3
        /\ s3[Key(s)] = s

\* C2 (as stated): a Store under a name that already has an object fails with
\* the name-conflict error, invokes neither the renderer nor an upload, and
\* leaves the stored content unchanged.
C2_AlwaysConflict ==
    \A i \in Ids :
        IsStore(i) /\ Key(i) \in atArrival[i].keys =>
            /\ webshotCalls[i] = <<>>
            /\ "upload" \notin Ops(i)
            /\ i \notin Uploaders(Key(i))
            /\ Responded(i) => Result(i) = ConflictResponse

\* C2 (amended): a Store under a name that already has an object fails, invokes
\* neither the renderer nor an upload and leaves the stored content unchanged;
\* the failure is the URL validation error (400, storage not consulted) when the
\* URL is absent or lacks a scheme or a host, status 500 when the existence
\* check hits a storage failure, and the name-conflict error (400) otherwise.
C2_ExistingNameRejected ==
    \A i \in Ids :
        IsStore(i) /\ Key(i) \in atArrival[i].keys =>
            /\ webshotCalls[i] = <<>>
            /\ "upload" \notin Ops(i)
            /\ i \notin Uploaders(Key(i))
            /\ s3[Key(i)] # i
            /\ Responded(i) =>
                  IF req[i].name = <<>> \/ BadUrl(req[i].url)
                  THEN Result(i).code = 400 /\ s3Calls[i] = <<>>
                  ELSE IF s3Calls[i][1].outcome = "ok"
                  THEN Result(i) = ConflictResponse
                  ELSE Result(i).code = 500

C2_Witness ==
    \E i \in Ids :
        /\ IsStore(i)
        /\ Key(i) \in atArrival[i].keys
        /\ Responded(i)
        /\ Result(i) = ConflictResponse

\* C3: when Stores race on one key, each of them that uploaded reports success
\* and the object under the key is that of the upload the bucket applied last.
C3_LastWriteWins ==
    /\ \A key \in DOMAIN s3 : UploadsOf(key) # {} => s3[key] = LastUploader(key)
    /\ \A s \in Ids :
          IsStore(s) /\ s \in Uploaders(Key(s)) /\ Responded(s) => Result(s).code = 200

C3_Witness ==
    \E s \in Ids, t \in Ids :
        /\ s # t
        /\ IsStore(s) /\ IsStore(t)
        /\ req[s].name = req[t].name
        /\ SawNotFound(s) /\ SawNotFound(t)
        /\ UploadsOf(Key(s)) # {}
        /\ Uploaders(Key(s)) = {s, t}
        /\ StoreSucceeded(s) /\ StoreSucceeded(t)
        /\ LastUploader(Key(s)) = t
        /\ s3[Key(s)] = t

\* C4 (as stated): a Store that reports success has its object under base/name;
\* a Store that reports an error has persisted nothing and its temporary file
\* is gone.
C4_TempFileGone ==
    \A s \in Ids :
        IsStore(s) /\ Responded(s) =>
            IF Result(s).code = 200
            THEN Key(s) \in DOMAIN s3
            ELSE /\ \A n \in DOMAIN uploads : uploads[n].content # s
                 /\ s \notin disk

\* C4 (amended): a Store that reports success has its object under base/name;
\* a Store that reports an error has persisted nothing, and the delete of its
\* temporary file has completed: the file is gone unless that delete failed.
C4_NoPartialSuccess ==
    \A s \in Ids :
        IsStore(s) /\ Responded(s) =>
            IF Result(s).code = 200
            THEN Key(s) \in DOMAIN s3 /\ "ok" \in GetObjectOutcomes(Key(s))
            ELSE /\ \A n \in DOMAIN uploads : uploads[n].content # s
                 /\ \A k \in DOMAIN s3 : s3[k] # s
                 /\ s \in disk => s \in DOMAIN unlinkCalls /\ unlinkCalls[s] = "error"

C4_Witness ==
    \E s \in Ids :
        /\ IsStore(s)
        /\ Responded(s)
        /\ Result(s).code = 500
        /\ Rendered(s)
        /\ "upload" \in Ops(s)
        /\ s \notin disk

\* C5: a Generate or a Store whose URL is absent or lacks a scheme or a host is
\* answered 400 without any call of the renderer, and without any upload.
C5_BadUrlRejected ==
    \A i \in Ids :
        (IsStore(i) \/ IsGenerate(i)) /\ BadUrl(req[i].url) =>
            /\ webshotCalls[i] = <<>>
            /\ "upload" \notin Ops(i)
            /\ i \notin disk
            /\ Len(resp[i]) = 1
            /\ Result(i).code = 400

C5_Witness ==
    \E i \in Ids, j \in Ids :
        /\ IsGenerate(i) /\ BadUrl(req[i].url) /\ Responded(i)
        /\ IsStore(j) /\ req[j].name # <<>> /\ req[j].url.present /\ BadUrl(req[j].url)
        /\ Responded(j)

\* C6: a FetchRedirectTarget to which the storage answers 'not found' is
\* answered 404, and no signed URL is requested or returned.
C6_UnknownNameNotFound ==
    \A f \in Ids :
        IsFetch(f) /\ SawNotFound(f) =>
            /\ Responded(f)
            /\ Result(f).code = 404
            /\ Result(f).url = <<>>
            /\ "getSignedUrl" \notin Ops(f)

C6_Witness ==
    \E f \in Ids :
        /\ IsFetch(f)
        /\ req[f].name # <<>>
        /\ Key(f) \notin DOMAIN s3
        /\ SawNotFound(f)
        /\ Result(f).code = 404

\* C7: a FetchRedirectTarget with an empty name is answered 400 before the
\* storage is consulted.
C7_EmptyNameRejected ==
    \A f \in Ids :
        IsFetch(f) /\ req[f].name = <<>> =>
            /\ s3Calls[f] = <<>>
            /\ Responded(f) => Result(f).code = 400

\* C8: the delete of a rendered file is issued once the upload (Store) or the
\* download (Generate) has completed, whatever its outcome, and before Store
\* reports; when all requests are over every file left has had its delete issued.
C8_ScopedCleanup ==
    /\ \A i \in Ids :
          /\ i \in disk => Rendered(i)
          /\ i \in DOMAIN unlinkCalls => Rendered(i) /\ pc[i] \in {"unlink", "done"}
          /\ Rendered(i) /\ IsStore(i) =>
                /\ s3Calls[i][2].op = "upload"
                /\ (s3Calls[i][2].outcome = "pending") = (i \notin DOMAIN unlinkCalls)
                /\ Responded(i) => i \in DOMAIN unlinkCalls /\ unlinkCalls[i] # "pending"
          /\ Rendered(i) /\ IsGenerate(i) =>
                (pc[i] = "download") = (i \notin DOMAIN unlinkCalls)
    /\ (\A i \in Ids : pc[i] \in {"idle", "done"}) => disk \subseteq DOMAIN unlinkCalls

C8_Witness ==
    /\ \A i \in Ids : pc[i] = "done"
    /\ \E i \in Ids :
          IsStore(i) /\ Rendered(i) /\ s3Calls[i][2].outcome = "error" /\ i \in DOMAIN unlinkCalls
    /\ \E j \in Ids : IsGenerate(j) /\ Rendered(j) /\ j \in disk /\ j \in DOMAIN unlinkCalls

\* C9: the delay handed to the renderer lies in [0, 10000] whatever delay the
\* caller supplied.
C9_DelayInRange ==
    \A i \in Ids : \A k \in DOMAIN webshotCalls[i] :
        /\ webshotCalls[i][k].renderDelay >= 0
        /\ webshotCalls[i][k].renderDelay <= 10000

\* C10: a requested delay above 10000 reaches the renderer as 10000, and one
\* from 1 to 10000 reaches it unchanged.
C10_DelayCapped ==
    \A i \in Ids : \A k \in DOMAIN webshotCalls[i] :
        LET d == req[i].params.delay
        IN  /\ d.def /\ d.n > 10000 => webshotCalls[i][k].renderDelay = 10000
            /\ d.def /\ d.n >= 1 /\ d.n <= 10000 => webshotCalls[i][k].renderDelay = d.n

C10_Witness ==
    \E i \in Ids :
        /\ webshotCalls[i] # <<>>
        /\ req[i].params.delay.def
        /\ req[i].params.delay.n > 10000
        /\ webshotCalls[i][1].renderDelay = 10000

\* C11 (as stated): the renderer gets width 1024, height 768, userAgent "" and
\* delay 0 for the omitted options, the full page only when requested, and
\* every supplied option unchanged.
C11_SuppliedUnchanged ==
    \A i \in Ids : \A k \in DOMAIN webshotCalls[i] :
        LET p == req[i].params
            w == webshotCalls[i][k]
        IN  /\ w.width = IF p.width.def THEN p.width.n ELSE 1024
            /\ w.height = IF p.height.def THEN p.height.n ELSE 768
            /\ w.renderDelay = IF p.delay.def THEN p.delay.n ELSE 0
            /\ w.userAgent = IF p.userAgent = Undefined THEN "" ELSE p.userAgent
            /\ (w.shotHeight = "all") = (p.full = "true")

\* C11 (amended): the renderer gets width 1024, height 768, userAgent "" and
\* delay 0 for the omitted options, the full page only when requested, and
\* every supplied non-zero option unchanged, except that a supplied delay above
\* 10000 reaches it as 10000.
C11_DefaultsApplied ==
    \A i \in Ids : \A k \in DOMAIN webshotCalls[i] :
        LET p == req[i].params
            w == webshotCalls[i][k]
        IN  /\ ~p.width.def => w.width = 1024
            /\ p.width.def /\ p.width.n # 0 => w.width = p.width.n
            /\ ~p.height.def => w.height = 768
            /\ p.height.def /\ p.height.n # 0 => w.height = p.height.n
            /\ ~p.delay.def => w.renderDelay = 0
            /\ p.delay.def /\ p.delay.n # 0 /\ p.delay.n <= 10000 => w.renderDelay = p.delay.n
            /\ p.delay.def /\ p.delay.n > 10000 => w.renderDelay = 10000
            /\ w.userAgent = IF p.userAgent = Undefined THEN "" ELSE p.userAgent
            /\ (w.shotHeight = "all") = (p.full = "true")

C11_Witness ==
    \E i \in Ids :
        /\ webshotCalls[i] # <<>>
        /\ req[i].params.width = Num(800)
        /\ ~req[i].params.height.def
        /\ ~req[i].params.delay.def
        /\ req[i].params.userAgent = Undefined
        /\ req[i].params.full = Undefined
        /\ webshotCalls[i][1].width = 800
        /\ webshotCalls[i][1].height = 768
        /\ webshotCalls[i][1].renderDelay = 0
        /\ webshotCalls[i][1].userAgent = ""
        /\ webshotCalls[i][1].shotHeight = "window"

\* C12: every error response has status 400, 404 or 500 and a non-empty
\* message that holds no detail of the storage collaborator or the renderer.
C12_ErrorsCarryMessage ==
    \A i \in Ids : \A k \in DOMAIN resp[i] :
        resp[i][k].code \notin {200, 302} =>
            /\ resp[i][k].code \in {400, 404, 500}
            /\ resp[i][k].body \notin {Undefined, ""}
            /\ resp[i][k].body \notin { "s3:" \o o : o \in {"InternalError"} }

\* the name without its ".png"
Stem(name) == SubSeq(name, 1, Len(name) - 4)

RECURSIVE TrimUnderscores(_)
TrimUnderscores(str) ==
    IF str # <<>> /\ str[Len(str)] = "_"
    THEN TrimUnderscores(SubSeq(str, 1, Len(str) - 1))
    ELSE str

\* host followed by path, non-word characters as underscores
Underscored(url) ==
    [k \in 1..(Len(url.hostname) + Len(url.pathname)) |->
        LET ch == (url.hostname \o url.pathname)[k]
        IN  IF ch \in {".", "/", "-", ":"} THEN "_" ELSE ch]

\* C13: the download name of a generated image is host then path with the
\* non-word characters as underscores and all trailing underscores trimmed,
\* followed by ".png": it never ends in an underscore before the extension.
C13_ImageName ==
    \A i \in Ids : \A k \in DOMAIN resp[i] :
        IsGenerate(i) /\ resp[i][k].code = 200 =>
            LET name == resp[i][k].filename
            IN  /\ SubSeq(name, Len(name) - 3, Len(name)) = <<".", "p", "n", "g">>
                /\ Stem(name) = TrimUnderscores(Underscored(req[i].url))
                /\ Stem(name)[Len(Stem(name))] # "_"

UrlMessages == {"Missing url", "Invalid url, missing protocol", "Invalid url, missing hostname"}

\* C14 (as stated): Store checks the name, then the existence of the name, then
\* the URL: with a URL lacking a scheme or a host the storage is still
\* consulted, and the answer is the name conflict when the name is in use and
\* 500 when the storage fails.
C14_ExistenceBeforeUrl ==
    \A i \in Ids :
        IsStore(i) /\ req[i].name # <<>> /\ BadUrl(req[i].url) =>
            /\ s3Calls[i] # <<>>
            /\ Responded(i) =>
                  /\ s3Calls[i][1].outcome = "ok" => Result(i) = ConflictResponse
                  /\ s3Calls[i][1].outcome = "InternalError" => Result(i).code = 500

\* C14 (amended): Store checks the name, then the URL, then the existence of
\* the name: with a URL lacking a scheme or a host it answers the URL error
\* (400) without consulting the storage, even when the name is in use; with a
\* valid URL it answers the name conflict when the name is in use and 500 when
\* the existence check hits a storage failure.
C14_UrlBeforeExistence ==
    \A i \in Ids :
        IsStore(i) =>
            /\ req[i].name = <<>> => s3Calls[i] = <<>> /\ Result(i) = Response(400, "Missing name")
            /\ req[i].name # <<>> /\ BadUrl(req[i].url) =>
                  /\ s3Calls[i] = <<>>
                  /\ Result(i).code = 400
                  /\ Result(i).body \in UrlMessages
            /\ req[i].name # <<>> /\ ~BadUrl(req[i].url) =>
                  /\ s3Calls[i] # <<>>
                  /\ s3Calls[i][1].op = "getObject"
                  /\ Responded(i) /\ s3Calls[i][1].outcome = "ok" => Result(i) = ConflictResponse
                  /\ Responded(i) /\ s3Calls[i][1].outcome = "InternalError" =>
                        Result(i).code = 500

C14_Witness ==
    \E i \in Ids :
        /\ IsStore(i)
        /\ req[i].name # <<>>
        /\ Key(i) \in atArrival[i].keys
        /\ BadUrl(req[i].url)
        /\ Result(i).code = 400
        /\ Result(i).body \in UrlMessages

\* C15: once the render has succeeded, Store answers 500 when the upload failed
\* and success when it worked, whether the delete of the local file failed or not.
C15_DeleteOutcomeIgnored ==
    \A s \in Ids :
        IsStore(s) /\ Rendered(s) /\ Responded(s) =>
            /\ s \in DOMAIN unlinkCalls
            /\ unlinkCalls[s] \in {"ok", "error"}
            /\ s3Calls[s][2].outcome = "error" => Result(s).code = 500
            /\ s3Calls[s][2].outcome = "ok" =>
                  Result(s).code = 200 /\ Result(s).url = <<"f">> \o req[s].name

C15_Witness ==
    \E s \in Ids, t \in Ids :
        /\ IsStore(s) /\ Rendered(s) /\ Responded(s)
        /\ s3Calls[s][2].outcome = "ok"
        /\ unlinkCalls[s] = "error"
        /\ Result(s).code = 200
        /\ IsStore(t) /\ Rendered(t) /\ Responded(t)
        /\ s3Calls[t][2].outcome = "error"
        /\ unlinkCalls[t] = "error"
        /\ Result(t).code = 500

RenderFailedResponse == Response(500, "Unable to take a screenshot")

\* C16: when the renderer fails the request is answered 500 after that single
\* attempt: no second render, and in Store no upload and no change of storage.
C16_RenderFailureNotRetried ==
    \A i \in Ids :
        /\ Len(webshotCalls[i]) <= 1
        /\ webshotCalls[i] # <<>> /\ webshotCalls[i][1].outcome = "error" =>
              /\ Len(resp[i]) = 1
              /\ Result(i) = RenderFailedResponse
              /\ pc[i] = "done"
              /\ "upload" \notin Ops(i)
              /\ i \notin disk
              /\ \A n \in DOMAIN uploads : uploads[n].content # i
              /\ \A key \in DOMAIN s3 : s3[key] # i

C16_Witness ==
    \E i \in Ids, j \in Ids :
        /\ IsStore(i) /\ webshotCalls[i] # <<>> /\ webshotCalls[i][1].outcome = "error"
        /\ Result(i).code = 500
        /\ IsGenerate(j) /\ webshotCalls[j] # <<>> /\ webshotCalls[j][1].outcome = "error"
        /\ Result(j).code = 500

StorageFailed(i) ==
    /\ s3Calls[i] # <<>>
    /\ s3Calls[i][1].op = "getObject"
    /\ s3Calls[i][1].outcome \notin {"pending", "ok", "NoSuchKey"}

\* C17: a storage failure other than 'not found' in the existence check is
\* answered 500: the fetch is neither a 404 nor a redirect, and the Store
\* neither renders nor uploads.
C17_StorageFailureIs500 ==
    \A i \in Ids :
        StorageFailed(i) =>
            /\ Len(resp[i]) = 1
            /\ Result(i).code = 500
            /\ Result(i).url = <<>>
            /\ Ops(i) = {"getObject"}
            /\ webshotCalls[i] = <<>>
            /\ i \notin disk

C17_Witness ==
    \E f \in Ids, s \in Ids :
        /\ IsFetch(f) /\ StorageFailed(f) /\ Result(f).code = 500
        /\ IsStore(s) /\ StorageFailed(s) /\ Result(s).code = 500

\* the step is the callback of the upload of the Store i
UploadStep(i) == IsStore(i) /\ pc[i] = "upload" /\ pc'[i] # "upload"

\* C18: the bucket changes only in the callback of a successful upload of a
\* Store, and then only under the key of that Store; no step of a
\* FetchRedirectTarget, of a Generate or of a Store that fails changes it.
C18_OnlyStoreWrites ==
    [][ /\ s3' # s3 =>
              \E i \in Ids :
                  /\ UploadStep(i)
                  /\ s3Calls'[i][2].outcome = "ok"
                  /\ DOMAIN s3' = DOMAIN s3 \cup {Key(i)}
                  /\ s3'[Key(i)] = i
                  /\ \A k \in DOMAIN s3 : k # Key(i) => s3'[k] = s3[k]
        /\ \A i \in Ids :
              IsStore(i) /\ resp'[i] # <<>> /\ resp'[i][1].code # 200 =>
                  /\ \A k \in DOMAIN s3' : s3'[k] # i
                  /\ (resp[i] = <<>> => s3' = s3)
      ]_vars

C18_Witness ==
    \E s \in Ids, t \in Ids :
        /\ StoreSucceeded(s)
        /\ s3[Key(s)] = s
        /\ Key(s) # getS3Key(<<"b">>)
        /\ s3[getS3Key(<<"b">>)] = 0
        /\ IsStore(t) /\ Rendered(t) /\ Responded(t)
        /\ Result(t).code = 500

\* C19: at most one HTTP response is sent for a request, on every path, and a
\* request that has been answered is over except for the cleanup of Generate.
C19_AtMostOneResponse ==
    \A i \in Ids :
        /\ Len(resp[i]) <= 1
        /\ Responded(i) =>
              \/ pc[i] = "done"
              \/ IsGenerate(i) /\ Result(i).code = 200 /\ pc[i] \in {"download", "unlink"}
        /\ pc[i] = "done" => Responded(i)

C19_Witness ==
    \E s \in Ids, f \in Ids :
        /\ StoreSucceeded(s) /\ pc[s] = "done" /\ Len(resp[s]) = 1
        /\ IsFetch(f) /\ pc[f] = "done" /\ Len(resp[f]) = 1 /\ Result(f).code = 302

\* C20: provided every call of a collaborator calls back, every request that
\* has arrived is eventually answered, whatever the other requests do.
C20_EveryRequestAnswered ==
    \A i \in Ids : (pc[i] # "idle") ~> (resp[i] # <<>>)

C20_Witness ==
    \E i \in Ids, j \in Ids :
        /\ i < j
        /\ i \notin atArrival[j].responded
        /\ IsStore(i) /\ IsStore(j)
        /\ req[i].name = req[j].name
        /\ Rendered(i) /\ Rendered(j)
        /\ Responded(i) /\ Responded(j)

====
